---- MODULE Spec2Model ----
(***************************************************************************)
(* A model of src/index.ts: the observable container State<T>, its         *)
(* ValueSubscription handles, the binding helpers valueOf,                  *)
(* valueForFocusable and eventListener, and the URL persistence helper     *)
(* persistStateToURLArgument.                                               *)
(*                                                                          *)
(* The methods and functions of the source are operators from a world       *)
(* record (the container's private fields, the subscription objects, the    *)
(* browser's document/location/history and the event target) to the world   *)
(* after the call.  Every action of Next is one call made by UI code or     *)
(* one browser event, run to completion.                                    *)
(***************************************************************************)
EXTENDS Integers, Sequences, FiniteSets, TLC

\* ---------------------------------------------------------------- bounds
\* Number of ValueSubscription objects that are ever constructed.
MaxSubs == 2
\* The values of type T are 0..MaxValue.
MaxValue == 1

Values == 0..MaxValue
SubRefs == 1..MaxSubs

\* null where a string is expected (no string holds the digit -1).
Null == << -1 >>
\* A ValueSubscription reference that has no object yet.
NoSub == [id |-> Null, kind |-> "none"]

\* ------------------------------------------------------------------- ids
\* A subscription id is a string of base-36 digits, written here as the
\* sequence of the digits' values: "b" is <<11>>, "2" is <<2>> and "10" is
\* <<1, 0>>.
\* The strings id() (lines 173-175) returns in the model.
Ids == { <<11>>, <<2>>, <<1, 0>> }

\* ECMAScript property keys that are canonical array indices ("2", "10",
\* but not "07" nor "b") are enumerated before the other keys, in ascending
\* numeric order.
IsArrayIndex(k) ==
    /\ Len(k) > 0
    /\ \A i \in 1..Len(k) : k[i] < 10
    /\ (Len(k) > 1 => k[1] # 0)

RECURSIVE ToNumber(_)
ToNumber(k) ==
    IF k = <<>> THEN 0 ELSE 10 * ToNumber(SubSeq(k, 1, Len(k) - 1)) + k[Len(k)]

\* ------------------------------------------- the object #listeners (line 4)
\* A sequence of [key, sub] entries in property creation order.
HasKey(obj, k) == \E i \in 1..Len(obj) : obj[i].key = k

Get(obj, k) == obj[CHOOSE i \in 1..Len(obj) : obj[i].key = k].sub

\* obj[k] = s: an existing property keeps its place, a new one goes last.
SetProperty(obj, k, s) ==
    IF HasKey(obj, k)
    THEN [i \in 1..Len(obj) |->
            IF obj[i].key = k THEN [key |-> k, sub |-> s] ELSE obj[i]]
    ELSE Append(obj, [key |-> k, sub |-> s])

\* delete obj[k]
DeleteProperty(obj, k) == SelectSeq(obj, LAMBDA e : e.key # k)

RECURSIVE Ascending(_)
Ascending(ks) ==
    IF ks = {} THEN <<>>
    ELSE LET m == CHOOSE x \in ks : \A y \in ks : ToNumber(x) <= ToNumber(y)
         IN  <<m>> \o Ascending(ks \ {m})

\* The keys a for...in loop over obj visits, in order.
ForInKeys(obj) ==
    LET indices == { obj[i].key : i \in { j \in 1..Len(obj) : IsArrayIndex(obj[j].key) } }
        strings == SelectSeq(obj, LAMBDA e : ~IsArrayIndex(e.key))
    IN  Ascending(indices) \o [i \in 1..Len(strings) |-> strings[i].key]

\* ----------------------------------------------------------------- state
VARIABLES
    lastValue,        \* State.#lastValue
    defaultValue,     \* State.#defaultValue
    listeners,        \* State.#listeners
    subs,             \* the ValueSubscription objects constructed so far
    activeElement,    \* document.activeElement: "focusable" or "body"
    history,          \* the session history; its last entry is window.location
    target,           \* event.target[property] of the bound DOM element
    defaultPrevented, \* whether preventDefault was called on the last event
    calls,            \* the function invocations made by the last operation
    lastOp,           \* the last operation, its arguments and the value before it
    removed           \* history: the subscriptions removeListener was called
                      \* for since they were last passed to addListener

vars == << lastValue, defaultValue, listeners, subs, activeElement, history,
           target, defaultPrevented, calls, lastOp, removed >>

\* The world an operation runs in.
World ==
    [ lastValue |-> lastValue, defaultValue |-> defaultValue,
      listeners |-> listeners, subs |-> subs, activeElement |-> activeElement,
      history |-> history, target |-> target,
      defaultPrevented |-> defaultPrevented, calls |-> <<>>,
      removed |-> removed ]

\* A function invocation: fn is "callback" for subscription.callback(value)
\* and "cb" for the body of the callback the caller of a binding helper
\* supplied.
Invoke(w, fn, s, value) ==
    [w EXCEPT !.calls = Append(@, [fn |-> fn, sub |-> s, value |-> value])]

\* ------------------------------------------------------- URL and strings
\* Query strings are sequences of [name, value] pairs; a parameter value is
\* a string of decimal digits, written as the sequence of the digits.
ArgumentName == "n"

Location(w) == w.history[Len(w.history)]

\* URLSearchParams.get: the first value of the name, or null.
ParamsGet(params, name) ==
    IF \E i \in 1..Len(params) : params[i].name = name
    THEN params[CHOOSE i \in 1..Len(params) :
                    /\ params[i].name = name
                    /\ \A j \in 1..(i - 1) : params[j].name # name].value
    ELSE Null

\* URLSearchParams.set: the first pair of the name takes the value and the
\* other pairs of the name are dropped; a new name is appended.
ParamsSet(params, name, value) ==
    IF ParamsGet(params, name) = Null
    THEN Append(params, [name |-> name, value |-> value])
    ELSE LET first == CHOOSE i \in 1..Len(params) :
                        /\ params[i].name = name
                        /\ \A j \in 1..(i - 1) : params[j].name # name
             kept  == { i \in 1..Len(params) : params[i].name # name \/ i = first }
             RECURSIVE Build(_)
             Build(i) ==
                IF i > Len(params) THEN <<>>
                ELSE (IF i \in kept
                      THEN << IF i = first
                              THEN [name |-> name, value |-> value]
                              ELSE params[i] >>
                      ELSE <<>>) \o Build(i + 1)
         IN  Build(1)

\* StringableState.marshalString / unmarshalString are abstract; the model's
\* container is the numeric one: the decimal digits of the value, and the
\* number a digit string denotes ("01" denotes 1).
RECURSIVE marshalString(_)
marshalString(value) ==
    IF value < 10 THEN <<value>>
    ELSE marshalString(value \div 10) \o <<value % 10>>

unmarshalString(string) == ToNumber(string)

\* history.pushState in the place of replaceState: a new entry is added.
replaceState_Push(w, pathname, params) ==
    LET w1 == [w EXCEPT !.calls =
                 Append(@, [fn |-> "replaceState", sub |-> 0, value |-> 0])]
    IN  [w1 EXCEPT !.history = Append(@,
            [pathname |-> pathname, search |-> params, hash |-> ""])]

\* replaceState(null, "", newURL), newURL being a path and a query: the
\* current entry is replaced by the URL newURL resolves to, which has no
\* fragment.
replaceState(w, pathname, params) ==
    LET w1 == [w EXCEPT !.calls =
                 Append(@, [fn |-> "replaceState", sub |-> 0, value |-> 0])]
    IN  [w1 EXCEPT !.history[Len(w.history)] =
            [pathname |-> pathname, search |-> params, hash |-> ""]]

\* lines 163-171
setURLArgument(w, reuseableParams, argumentName, value) ==
    LET params == ParamsSet(reuseableParams, argumentName, value)
    IN  replaceState(w, Location(w).pathname, params)

\* compareAndSetURLArgument without the comparison of line 158.
compareAndSetURLArgument_Always(w, reuseableParams, argumentName, paramValue, stringValue) ==
    setURLArgument(w, reuseableParams, argumentName, stringValue)

\* lines 152-161
compareAndSetURLArgument(w, reuseableParams, argumentName, paramValue, stringValue) ==
    IF paramValue # stringValue
    THEN setURLArgument(w, reuseableParams, argumentName, stringValue)
    ELSE w

\* ------------------------------------------------------------- callbacks
\* The callback with the default check of line 138 inverted.
persistCallback_InvertedDefaultCheck(w, value) ==
    LET params == Location(w).search
        param  == ParamsGet(params, ArgumentName)
    IN  IF param # Null
        THEN compareAndSetURLArgument(w, params, ArgumentName, param,
                                      marshalString(value))
        ELSE IF w.lastValue = w.defaultValue
             THEN setURLArgument(w, params, ArgumentName,
                                 marshalString(w.lastValue))
             ELSE w

\* The callback persistStateToURLArgument registers (lines 127-146).
persistCallback(w, value) ==
    LET params == Location(w).search
        param  == ParamsGet(params, ArgumentName)
    IN  IF param # Null
        THEN compareAndSetURLArgument(w, params, ArgumentName, param,
                                      marshalString(value))
        ELSE IF w.lastValue # w.defaultValue
             THEN setURLArgument(w, params, ArgumentName,
                                 marshalString(w.lastValue))
             ELSE w

\* preventingCallback without the focus check of line 81.
preventingCallback_Unguarded(w, s, value) == Invoke(w, "cb", s, value)

\* The callback valueForFocusable registers (lines 80-84).
preventingCallback(w, s, value) ==
    IF w.activeElement # "focusable" THEN Invoke(w, "cb", s, value) ELSE w

\* A caller's callback that keeps the value below MaxValue: it calls
\* state.setValue with the normalised value when it is given another one.
Normalise(value) == IF value >= MaxValue THEN MaxValue - 1 ELSE value

RECURSIVE setValue(_, _)
normalisingCallback(w, s, value) ==
    LET w1 == Invoke(w, "cb", s, value)
    IN  IF value # Normalise(value) THEN setValue(w1, Normalise(value)) ELSE w1

\* subscription.callback(value), by the kind of function the subscription
\* of reference s holds.
callback(w, s, value) ==
    LET w1   == Invoke(w, "callback", s, value)
        kind == w.subs[s].kind
    IN  CASE kind = "plain"       -> Invoke(w1, "cb", s, value)
          [] kind = "focusable"   -> preventingCallback(w1, s, value)
          [] kind = "persist"     -> persistCallback(w1, value)
          [] kind = "normalising" -> normalisingCallback(w1, s, value)

\* ------------------------------------------------------------ class State
\* addListener without the eager delivery of line 13.
addListener_NoInitialCall(w, subscription) ==
    [w EXCEPT !.listeners =
                  SetProperty(@, w.subs[subscription].id, subscription),
              !.removed = @ \ {subscription}]

\* lines 11-14
addListener(w, subscription) ==
    LET w1 == [w EXCEPT !.listeners =
                            SetProperty(@, w.subs[subscription].id, subscription),
                        !.removed = @ \ {subscription}]
    IN  callback(w1, subscription, w1.lastValue)

\* removeListener that drops the newest property when the id is not there
\* (the splice(indexOf(id), 1) of an array-backed mapping).
removeListener_Splice(w, subscription) ==
    [w EXCEPT !.listeners =
                  IF HasKey(@, w.subs[subscription].id)
                  THEN DeleteProperty(@, w.subs[subscription].id)
                  ELSE SubSeq(@, 1, Len(@) - 1),
              !.removed = @ \cup {subscription}]

\* removeListener that leaves the property in place.
removeListener_NoDelete(w, subscription) ==
    [w EXCEPT !.removed = @ \cup {subscription}]

\* lines 16-18
removeListener(w, subscription) ==
    [w EXCEPT !.listeners = DeleteProperty(@, w.subs[subscription].id),
              !.removed = @ \cup {subscription}]

\* The for...in loop of setValue (lines 22-24) over the keys still to
\* visit; a key deleted before its turn is not visited.
RECURSIVE Notify(_, _, _)
Notify(w, keys, value) ==
    IF keys = <<>> THEN w
    ELSE IF HasKey(w.listeners, Head(keys))
         THEN Notify(callback(w, Get(w.listeners, Head(keys)), value),
                     Tail(keys), value)
         ELSE Notify(w, Tail(keys), value)

\* setValue without the store of line 21.
setValue_NoStore(w, value) == Notify(w, ForInKeys(w.listeners), value)

\* setValue that returns early when the value is the current one.
setValue_Dedup(w, value) ==
    IF value = w.lastValue THEN w
    ELSE Notify([w EXCEPT !.lastValue = value], ForInKeys(w.listeners), value)

\* lines 20-25
setValue(w, value) ==
    LET w1 == [w EXCEPT !.lastValue = value]
    IN  Notify(w1, ForInKeys(w1.listeners), value)

\* lines 27-29
State_valueOf(w) == w.lastValue

\* The for...in loop of dispose (lines 36-38).
RECURSIVE RemoveEach(_, _)
RemoveEach(w, keys) ==
    IF keys = <<>> THEN w
    ELSE IF HasKey(w.listeners, Head(keys))
         THEN RemoveEach(removeListener(w, Get(w.listeners, Head(keys))),
                         Tail(keys))
         ELSE RemoveEach(w, Tail(keys))

\* dispose that stops after the first key of the loop.
State_dispose_FirstOnly(w) ==
    LET keys == ForInKeys(w.listeners)
    IN  RemoveEach(w, IF keys = <<>> THEN keys ELSE << Head(keys) >>)

\* lines 35-39
State_dispose(w) == RemoveEach(w, ForInKeys(w.listeners))

\* ------------------------------------------------ class ValueSubscription
\* The reference the next constructed object gets.
NextRef(w) == CHOOSE s \in SubRefs :
                /\ w.subs[s] = NoSub
                /\ \A r \in 1..(s - 1) : w.subs[r] # NoSub

CanConstruct(w) == \E s \in SubRefs : w.subs[s] = NoSub

\* new ValueSubscription(id, state, callback) (lines 52-58), callback being
\* a function of the given kind.
NewValueSubscription(w, id, kind) ==
    [w EXCEPT !.subs[NextRef(w)] = [id |-> id, kind |-> kind]]

\* lines 60-62
ValueSubscription_dispose(w, s) == removeListener(w, s)

\* -------------------------------------------------------- binding helpers
\* lines 65-73; id is the string id() returned.
valueOf(w, id) ==
    LET subscription == NextRef(w)
        w1 == NewValueSubscription(w, id, "plain")
        w2 == addListener(w1, subscription)
    IN  Invoke(w2, "cb", subscription, State_valueOf(w2))

\* lines 75-91
valueForFocusable(w, id) ==
    LET subscription == NextRef(w)
        w1 == NewValueSubscription(w, id, "focusable")
        w2 == IF w1.activeElement # "focusable"
              THEN Invoke(w1, "cb", subscription, State_valueOf(w1))
              ELSE w1
    IN  addListener(w2, subscription)

\* The handler eventListener returns (lines 98-109), fired with an event
\* whose target is the bound element; a validator is given by the set of
\* the values it accepts.
NoValidator == [present |-> FALSE, accepts |-> {}]

\* The handler without the return of line 105.
eventListener_NoReturn(w, validator) ==
    LET newValue == w.target
        w0 == [w EXCEPT !.defaultPrevented = FALSE]
    IN  IF validator.present /\ newValue \notin validator.accepts
        THEN setValue([w0 EXCEPT !.defaultPrevented = TRUE,
                                 !.target = State_valueOf(w0)], newValue)
        ELSE setValue(w0, newValue)

\* The handler taking a missing validator for one that rejects.
eventListener_RequiresValidator(w, validator) ==
    LET newValue == w.target
        w0 == [w EXCEPT !.defaultPrevented = FALSE]
    IN  IF ~validator.present \/ newValue \notin validator.accepts
        THEN [w0 EXCEPT !.defaultPrevented = TRUE,
                        !.target = State_valueOf(w0)]
        ELSE setValue(w0, newValue)

eventListener(w, validator) ==
    LET newValue == w.target
        w0 == [w EXCEPT !.defaultPrevented = FALSE]
    IN  IF validator.present /\ newValue \notin validator.accepts
        THEN [w0 EXCEPT !.defaultPrevented = TRUE,
                        !.target = State_valueOf(w0)]
        ELSE setValue(w0, newValue)

\* lines 114-150
persistStateToURLArgument(w, id) ==
    LET params == Location(w).search
        param  == ParamsGet(params, ArgumentName)
        w1 == IF param # Null /\ param # marshalString(w.defaultValue)
              THEN setValue(w, unmarshalString(param))
              ELSE w
        subscription == NextRef(w1)
        w2 == NewValueSubscription(w1, id, "persist")
    IN  addListener(w2, subscription)

\* ------------------------------------------------------------ the program
\* The validators handlers are built with: none, one that rejects 0 and one
\* that accepts only 0.
Validators ==
    { NoValidator,
      [present |-> TRUE, accepts |-> Values \ {0}],
      [present |-> TRUE, accepts |-> {0}] }

URL(search, hash) == [pathname |-> "/p", search |-> search, hash |-> hash]

\* The URLs the page may be opened with: /p, /p?n=0, /p?n=1,
\* /p?q=7&n=01#h and /p?q=7#h.
InitialURLs ==
    { URL(<<>>, ""),
      URL(<<[name |-> "n", value |-> <<0>>]>>, ""),
      URL(<<[name |-> "n", value |-> <<1>>]>>, ""),
      URL(<<[name |-> "q", value |-> <<7>>], [name |-> "n", value |-> <<0, 1>>]>>, "#h"),
      URL(<<[name |-> "q", value |-> <<7>>]>>, "#h") }

\* An operation: its name, the subscription and the value it was called
\* with (0 and the current value when it takes none), the validator of the
\* handler, and valueOf() and the subscriptions of the mapping before it.
Op(name, sub, value, validator) ==
    [name |-> name, sub |-> sub, value |-> value, validator |-> validator,
     before |-> lastValue,
     registered |-> { listeners[i].sub : i \in 1..Len(listeners) }]

Constructed == { s \in SubRefs : subs[s] # NoSub }

\* new State(0) (lines 6-9), the page just loaded.
Init ==
    /\ defaultValue = 0
    /\ lastValue = defaultValue
    /\ listeners = <<>>
    /\ subs = [s \in SubRefs |-> NoSub]
    /\ activeElement = "body"
    /\ \E u \in InitialURLs : history = << URL(<<>>, ""), u >>
    /\ target = defaultValue
    /\ defaultPrevented = FALSE
    /\ calls = <<>>
    /\ lastOp = [name |-> "new State", sub |-> 0, value |-> defaultValue,
                 validator |-> NoValidator, before |-> defaultValue,
                 registered |-> {}]
    /\ removed = {}

\* The world after an operation becomes the state.
Commit(w, op) ==
    /\ lastValue' = w.lastValue
    /\ defaultValue' = w.defaultValue
    /\ listeners' = w.listeners
    /\ subs' = w.subs
    /\ activeElement' = w.activeElement
    /\ history' = w.history
    /\ target' = w.target
    /\ defaultPrevented' = w.defaultPrevented
    /\ calls' = w.calls
    /\ lastOp' = op
    /\ removed' = w.removed

SetValue ==
    \E value \in Values :
        Commit(setValue(World, value), Op("setValue", 0, value, NoValidator))

AddListener ==
    \E s \in Constructed :
        Commit(addListener(World, s), Op("addListener", s, lastValue, NoValidator))

RemoveListener ==
    \E s \in Constructed :
        Commit(removeListener(World, s), Op("removeListener", s, lastValue, NoValidator))

SubscriptionDispose ==
    \E s \in Constructed :
        Commit(ValueSubscription_dispose(World, s),
               Op("subscription.dispose", s, lastValue, NoValidator))

Dispose ==
    Commit(State_dispose(World), Op("dispose", 0, lastValue, NoValidator))

ValueOf ==
    /\ CanConstruct(World)
    /\ \E i \in Ids :
        Commit(valueOf(World, i), Op("valueOf", NextRef(World), lastValue, NoValidator))

ValueForFocusable ==
    /\ CanConstruct(World)
    /\ \E i \in Ids :
        Commit(valueForFocusable(World, i),
               Op("valueForFocusable", NextRef(World), lastValue, NoValidator))

PersistStateToURLArgument ==
    /\ CanConstruct(World)
    /\ \E i \in Ids :
        Commit(persistStateToURLArgument(World, i),
               Op("persistStateToURLArgument", NextRef(World), lastValue, NoValidator))

\* The focusable element gains or loses the input focus.
Focus ==
    /\ activeElement # "focusable"
    /\ Commit([World EXCEPT !.activeElement = "focusable"],
              Op("focus", 0, lastValue, NoValidator))

Blur ==
    /\ activeElement = "focusable"
    /\ Commit([World EXCEPT !.activeElement = "body"],
              Op("blur", 0, lastValue, NoValidator))

\* The user edits the bound element: its property takes a new value.
Input ==
    \E value \in Values :
        /\ value # target
        /\ Commit([World EXCEPT !.target = value],
                  Op("input", 0, value, NoValidator))

\* An event fires on the bound element and a handler made by
\* eventListener(state, validator) runs.
Event ==
    \E validator \in Validators :
        Commit(eventListener(World, validator),
               Op("event", 0, target, validator))

Next ==
    \/ SetValue
    \/ AddListener
    \/ RemoveListener
    \/ SubscriptionDispose
    \/ Dispose
    \/ ValueOf
    \/ ValueForFocusable
    \/ PersistStateToURLArgument
    \/ Focus
    \/ Blur
    \/ Input
    \/ Event

Spec == Init /\ [][Next]_vars

\* The page's code uses only a part of the library: the container with its
\* subscriptions and valueOf (SpecState), and with them valueForFocusable
\* (SpecFocusable), eventListener (SpecEventListener) or
\* persistStateToURLArgument (SpecPersist).  Only the last reads the URL.
InitPlain == Init /\ history = << URL(<<>>, ""), URL(<<>>, "") >>

NextState ==
    \/ SetValue
    \/ AddListener
    \/ RemoveListener
    \/ SubscriptionDispose
    \/ Dispose
    \/ ValueOf

NextFocusable ==
    \/ NextState
    \/ ValueForFocusable
    \/ Focus
    \/ Blur

NextEventListener ==
    \/ NextState
    \/ Input
    \/ Event

NextPersist ==
    \/ NextState
    \/ PersistStateToURLArgument

SpecState == InitPlain /\ [][NextState]_vars

SpecFocusable == InitPlain /\ [][NextFocusable]_vars

SpecEventListener == InitPlain /\ [][NextEventListener]_vars

SpecPersist == Init /\ [][NextPersist]_vars

\* The page also registers a subscription whose callback normalises the
\* value: new ValueSubscription(id, state, callback), state.addListener.
AddNormalisingListener ==
    /\ CanConstruct(World)
    /\ \E i \in Ids :
        Commit(addListener(NewValueSubscription(World, i, "normalising"),
                           NextRef(World)),
               Op("addListener", NextRef(World), lastValue, NoValidator))

NextReentrant ==
    \/ NextPersist
    \/ AddNormalisingListener

SpecReentrant == Init /\ [][NextReentrant]_vars

\* The same page opened with a URL that has no parameter of the name.
InitNoParam ==
    /\ Init
    /\ ParamsGet(history[Len(history)].search, ArgumentName) = Null

SpecPersistNoParam == InitNoParam /\ [][NextPersist]_vars

\* ----------------------------------------------------------- properties
\* The subscriptions the listener mapping holds.
Registered == { listeners[i].sub : i \in 1..Len(listeners) }

\* How often the last operation invoked fn of subscription s, with value
\* and at all.
Count(fn, s, value) ==
    Cardinality({ i \in 1..Len(calls) :
        calls[i].fn = fn /\ calls[i].sub = s /\ calls[i].value = value })

CountAny(fn, s) ==
    Cardinality({ i \in 1..Len(calls) : calls[i].fn = fn /\ calls[i].sub = s })

\* The invocations of subscription callbacks by the last operation.
Notifications == SelectSeq(calls, LAMBDA c : c.fn = "callback")

\* C1: valueOf() is the constructor's value at first, every setValue(v)
\* makes it v, and no other operation on the container (addListener,
\* removeListener, dispose of a subscription or of the container, valueOf)
\* changes it.
C1_ValueOfIsLastSetValue ==
    /\ lastValue = defaultValue
    /\ [][ /\ lastOp'.name = "setValue" => lastValue' = lastOp'.value
           /\ lastOp'.name # "setValue" => lastValue' = lastValue ]_vars

\* C1 witness: a subscription was removed after a setValue changed the
\* value, and the value is still the one set.
C1_Witness ==
    /\ lastOp.name = "removeListener"
    /\ lastValue # defaultValue

\* C2: a setValue invokes no callback of a subscription for which
\* removeListener was called (directly, by its dispose() or by the
\* container's dispose()) and which was not registered again since.
C2_RemovedNeverNotified ==
    lastOp.name = "setValue" =>
        \A i \in 1..Len(calls) : calls[i].sub \notin removed

\* C2 witness: a setValue that notified a subscription while another one
\* had been removed.
C2_Witness ==
    /\ lastOp.name = "setValue"
    /\ removed # {}
    /\ calls # <<>>

\* C3 as stated: setValue(v) invokes the callback of every subscription of
\* the mapping exactly once with v, and a subscriber has received the
\* current value exactly once when its registration returns, whether it was
\* registered with addListener or with valueOf.
C3_OnceAtRegistration ==
    /\ lastOp.name = "setValue" =>
          /\ \A s \in Registered : Count("callback", s, lastOp.value) = 1
          /\ Len(Notifications) = Cardinality(Registered)
    /\ lastOp.name \in {"addListener", "valueOf"} =>
          /\ Count("cb", lastOp.sub, lastValue) = 1
          /\ CountAny("cb", lastOp.sub) = 1

\* C3 amended: setValue(v) invokes the callback of every subscription of
\* the mapping exactly once with v, also when v is the current value; a
\* subscriber has received the current value once when addListener returns
\* and twice when valueOf returns.
C3_SetValueNotifiesEachOnce ==
    /\ lastOp.name = "setValue" =>
          /\ \A s \in Registered :
                /\ Count("callback", s, lastOp.value) = 1
                /\ Count("cb", s, lastOp.value) = 1
          /\ Len(Notifications) = Cardinality(Registered)
          /\ Len(calls) = 2 * Cardinality(Registered)
    /\ lastOp.name = "addListener" =>
          /\ Count("cb", lastOp.sub, lastValue) = 1
          /\ CountAny("cb", lastOp.sub) = 1
    /\ lastOp.name = "valueOf" =>
          /\ Count("cb", lastOp.sub, lastValue) = 2
          /\ CountAny("cb", lastOp.sub) = 2

\* C3 witness: a setValue of the value the container already had, with two
\* subscriptions registered and notified.
C3_Witness ==
    /\ lastOp.name = "setValue"
    /\ lastOp.value = lastOp.before
    /\ Cardinality(Registered) = 2
    /\ Len(Notifications) = 2

\* C4: when addListener or persistStateToURLArgument returns, the callback
\* of the subscription it registered has been invoked exactly once, with
\* the container's value; when the helper valueOf returns, the caller's
\* callback has been invoked exactly twice with it.
C4_RegistrationDelivers ==
    /\ lastOp.name \in {"addListener", "persistStateToURLArgument"} =>
          /\ Count("callback", lastOp.sub, lastValue) = 1
          /\ CountAny("callback", lastOp.sub) = 1
    /\ lastOp.name = "valueOf" =>
          /\ Count("cb", lastOp.sub, lastValue) = 2
          /\ CountAny("cb", lastOp.sub) = 2

\* C4 witness: persistStateToURLArgument took a value from the URL,
\* notified the subscription registered before and registered its own.
C4_Witness ==
    /\ lastOp.name = "persistStateToURLArgument"
    /\ lastValue # lastOp.before
    /\ Cardinality(Registered) = 2
    /\ Len(Notifications) = 2

\* C5 as stated: when valueForFocusable returns, the caller's callback has
\* been invoked exactly once with the current value if the element was not
\* focused, and not at all if it was.
C5_OneInitialInvocation ==
    lastOp.name = "valueForFocusable" =>
        /\ CountAny("cb", lastOp.sub) =
              (IF activeElement # "focusable" THEN 1 ELSE 0)
        /\ Count("cb", lastOp.sub, lastValue) = CountAny("cb", lastOp.sub)

\* The subscriptions of the mapping that valueForFocusable made.
Focusables == { s \in Registered : subs[s].kind = "focusable" }

\* C6: a setValue(v) invokes the caller's callback of a valueForFocusable
\* subscription, once and with v, exactly when the element is not the
\* focused one at that notification.
C6_FocusCheckedAtEachNotification ==
    lastOp.name = "setValue" =>
        \A s \in Focusables :
            /\ Count("callback", s, lastOp.value) = 1
            /\ CountAny("cb", s) =
                  (IF activeElement # "focusable" THEN 1 ELSE 0)
            /\ Count("cb", s, lastOp.value) = CountAny("cb", s)

\* C6 witness: the element is focused and a setValue of a new value reached
\* the guarded callback without reaching the caller's.
C6_Witness ==
    /\ lastOp.name = "setValue"
    /\ lastOp.value # lastOp.before
    /\ activeElement = "focusable"
    /\ \E s \in Focusables :
          Count("callback", s, lastOp.value) = 1 /\ CountAny("cb", s) = 0

\* C7: when State.dispose() returns the mapping is empty, every
\* subscription it held counts as removed and valueOf() is unchanged; a
\* later setValue stores its value, invokes no callback of a removed
\* subscription and notifies each subscription added since once.
C7_DisposeEmptiesMapping ==
    /\ lastOp.name = "dispose" =>
          /\ listeners = <<>>
          /\ lastOp.registered \subseteq removed
          /\ lastValue = lastOp.before
          /\ calls = <<>>
    /\ lastOp.name = "setValue" =>
          /\ lastValue = lastOp.value
          /\ \A s \in removed : CountAny("callback", s) = 0
          /\ \A s \in Registered : Count("callback", s, lastOp.value) = 1

\* C7 witness: dispose() on a container that held two subscriptions and a
\* value other than the initial one.
C7_Witness ==
    /\ lastOp.name = "dispose"
    /\ Cardinality(lastOp.registered) = 2
    /\ lastValue # defaultValue

\* C8 as stated: a setValue notifies the subscriptions in the order in
\* which their ids were registered (the creation order of the mapping's
\* properties), whatever the ids.
C8_RegistrationOrder ==
    lastOp.name = "setValue" =>
        [i \in 1..Len(Notifications) |-> Notifications[i].sub]
            = [i \in 1..Len(listeners) |-> listeners[i].sub]

\* Whether the last operation was a handler whose validator rejected the
\* target's value.
Rejected ==
    /\ lastOp.name = "event"
    /\ lastOp.validator.present
    /\ lastOp.value \notin lastOp.validator.accepts

\* C9: a handler whose validator rejects the target's value calls
\* preventDefault, sets the target's property to the container's value,
\* leaves valueOf() unchanged and invokes no callback.
C9_RejectionResetsTarget ==
    Rejected =>
        /\ defaultPrevented
        /\ target = lastValue
        /\ lastValue = lastOp.before
        /\ calls = <<>>

\* C9 witness: a rejected value other than the container's, with a
\* subscription registered.
C9_Witness ==
    /\ Rejected
    /\ lastOp.value # lastValue
    /\ Registered # {}

\* C10: a handler without validator, or whose validator accepts the
\* target's value, performs one setValue of that value (every registered
\* subscription is notified once with it), does not call preventDefault and
\* leaves the target's property; any other handler leaves the container.
C10_AcceptanceSetsValue ==
    lastOp.name = "event" =>
        IF Rejected
        THEN /\ lastValue = lastOp.before
             /\ calls = <<>>
        ELSE /\ lastValue = lastOp.value
             /\ ~defaultPrevented
             /\ target = lastOp.value
             /\ \A s \in Registered : Count("callback", s, lastOp.value) = 1
             /\ Len(Notifications) = Cardinality(Registered)

\* C10 witness: a handler without validator set a new value and two
\* subscriptions were notified.
C10_Witness ==
    /\ lastOp.name = "event"
    /\ ~lastOp.validator.present
    /\ lastOp.value # lastOp.before
    /\ Len(Notifications) = 2

\* The value of the URL's parameter of the name, or Null.
Param == ParamsGet(history[Len(history)].search, ArgumentName)

\* The persistence subscriptions of the mapping.
Persisting == { s \in Registered : subs[s].kind = "persist" }

\* C11 as stated, the page being opened without the parameter: with the
\* persistence subscription registered, a setValue(x) of a value other than
\* the default leaves the parameter marshalString(x), and a setValue of the
\* default leaves the URL without the parameter.
C11_DefaultClearsParameter ==
    (lastOp.name = "setValue" /\ Persisting # {}) =>
        IF lastOp.value # defaultValue
        THEN Param = marshalString(lastOp.value)
        ELSE Param = Null

\* C12 as stated: persistStateToURLArgument makes the value
\* unmarshalString(param) when the parameter is there and is not the
\* marshaled default, leaves the value otherwise, and never writes the URL.
C12_ConstructionLeavesURL ==
    [][ lastOp'.name = "persistStateToURLArgument" =>
          /\ (Param # Null /\ Param # marshalString(defaultValue))
                => lastValue' = unmarshalString(Param)
          /\ (Param = Null \/ Param = marshalString(defaultValue))
                => lastValue' = lastValue
          /\ history' = history
          /\ CountAny("replaceState", 0)' = 0 ]_vars

\* How often the last operation called history.replaceState.
Replaces == CountAny("replaceState", 0)

\* C13: a setValue(v) made while the persistence subscription is
\* registered and the URL has the parameter calls replaceState once when
\* the parameter's string is not marshalString(v) and not at all when it
\* is, and leaves the parameter marshalString(valueOf()).
C13_RewriteOnlyOnDifference ==
    [][ (lastOp'.name = "setValue" /\ Persisting # {} /\ Param # Null) =>
          /\ Replaces' = (IF Param # marshalString(lastOp'.value) THEN 1 ELSE 0)
          /\ Param' = marshalString(lastValue') ]_vars

\* C13 witness: a setValue of the default rewrote the parameter, which can
\* only be one that was there before.
C13_Witness ==
    /\ lastOp.name = "setValue"
    /\ lastOp.value = defaultValue
    /\ Persisting # {}
    /\ Replaces = 1
    /\ Param = marshalString(defaultValue)

\* C14: a setValue made while the persistence subscription is registered
\* and the URL has no parameter of the name leaves the URL as it is when
\* the value is the default, and sets the parameter to marshalString(x)
\* when the value x is not.
C14_AbsentWrittenOnlyOffDefault ==
    [][ (lastOp'.name = "setValue" /\ Persisting # {} /\ Param = Null) =>
          IF lastOp'.value = defaultValue
          THEN history' = history /\ Replaces' = 0
          ELSE Param' = marshalString(lastOp'.value) /\ Replaces' = 1 ]_vars

\* C14 witness: a setValue of the default with the persistence
\* subscription registered, after which the URL, which has another
\* parameter, is still without the named one.
C14_Witness ==
    /\ lastOp.name = "setValue"
    /\ lastOp.value = defaultValue
    /\ Persisting # {}
    /\ Param = Null
    /\ history[Len(history)].search # <<>>

\* The pairs of a query string that are not of the persisted name.
OtherParams(params) == SelectSeq(params, LAMBDA e : e.name # ArgumentName)

\* C15: no operation changes the number of history entries or an entry
\* other than the current one, and the current URL's query parameters of
\* other names keep their order and values.
C15_ReplacesInPlace ==
    [][ /\ Len(history') = Len(history)
        /\ \A i \in 1..(Len(history) - 1) : history'[i] = history[i]
        /\ OtherParams(history'[Len(history')].search)
              = OtherParams(history[Len(history)].search) ]_vars

\* C15 witness: a setValue wrote the named parameter into a URL that has
\* another parameter.
C15_Witness ==
    /\ lastOp.name = "setValue"
    /\ Replaces = 1
    /\ Param = marshalString(lastValue)
    /\ OtherParams(history[Len(history)].search) # <<>>

\* C16: removeListener(s) or s.dispose() for a subscription whose id is not
\* in the mapping changes neither the mapping nor the value and invokes
\* nothing; and since s.dispose() always leaves the mapping without the id
\* of s, a second s.dispose() changes nothing.
C16_RemoveAbsentIsNoOp ==
    [][ lastOp'.name \in {"removeListener", "subscription.dispose"} =>
          /\ ~HasKey(listeners', subs[lastOp'.sub].id)
          /\ ~HasKey(listeners, subs[lastOp'.sub].id) =>
                /\ listeners' = listeners
                /\ lastValue' = lastValue
                /\ subs' = subs
                /\ calls' = <<>> ]_vars

\* C16 witness: s.dispose() on a subscription whose id none of the
\* registered subscriptions had, another subscription staying registered.
C16_Witness ==
    /\ lastOp.name = "subscription.dispose"
    /\ lastOp.registered # {}
    /\ \A r \in lastOp.registered : subs[r].id # subs[lastOp.sub].id
    /\ Registered = lastOp.registered

\* C17 as stated: every subscription that was added to the container and
\* for which removeListener has not been called since (whatever was done
\* with other subscriptions, and whatever the ids) is notified once by a
\* setValue.
C17_OthersStayRegistered ==
    lastOp.name = "setValue" =>
        \A s \in Constructed \ removed : Count("callback", s, lastOp.value) = 1

\* The value the last operation delivered last to subscription s.
LastDelivered(s) ==
    LET at == { i \in 1..Len(calls) :
                  calls[i].fn = "callback" /\ calls[i].sub = s }
    IN  calls[CHOOSE i \in at : \A j \in at : j <= i].value

\* C18 as stated: when a setValue called by the page returns, the value
\* last delivered to every registered subscription is valueOf(), and the
\* parameter the persistence callback wrote is marshalString(valueOf()),
\* also when a callback called setValue during the fan-out.
C18_LastDeliveredIsCurrent ==
    lastOp.name = "setValue" =>
        /\ \A s \in Registered :
              CountAny("callback", s) > 0 => LastDelivered(s) = lastValue
        /\ (Persisting # {} /\ Replaces > 0) => Param = marshalString(lastValue)

\* C19 as stated: a URL write made by the persistence helper leaves the
\* pathname and the fragment of the current URL as they were.
C19_WriteKeepsPathAndFragment ==
    [][ Replaces' > 0 =>
          /\ history'[Len(history')].pathname = history[Len(history)].pathname
          /\ history'[Len(history')].hash = history[Len(history)].hash ]_vars

====
